---- MODULE Spec2Model ----
(***************************************************************************)
(* tiny_tensor: the Tensor value type (flat data, shape, row-major         *)
(* strides), its validated constructor, the zero-fill factory, the         *)
(* tensor! literal builder and the recursive Display formatter.            *)
(*                                                                         *)
(* usize is modelled with UsizeBits bits.  Multiplication and subtraction  *)
(* on usize panic when the crate is built with overflow checks (debug      *)
(* profile) and wrap modulo 2^UsizeBits otherwise (release profile); the   *)
(* build profile is the variable overflow_checks, chosen once in Init.     *)
(* call is the operation invoked with its arguments, result its outcome.   *)
(***************************************************************************)
EXTENDS Integers, Sequences, FiniteSets, TLC

VARIABLES overflow_checks, call, result

vars == <<overflow_checks, call, result>>

\* ------------------------------------------------------------- bounds
UsizeBits == 6
MaxRank == 3
MaxDim == 2
MaxLen == 4
MaxRows == 3
MaxCols == 3
MaxBlocks == 2
MaxBlockRows == 2
MaxBlockCols == 2

UsizeModulus == 2 ^ UsizeBits
UsizeMax == UsizeModulus - 1
\* a dimension whose square does not fit usize
BigDim == 2 ^ ((UsizeBits + 1) \div 2)

\* ------------------------------------------------------------- outcomes
\* A call either returns a value or panics (unwinds with a message); a macro
\* expansion the compiler rejects has the outcome kind "CompileError".
Return(v) == [kind |-> "Return", val |-> v]
Panic(m) == [kind |-> "Panic", msg |-> m]
\* Result<Tensor, TensorError>
ResultOk(t) == [tag |-> "Ok", tensor |-> t]
ResultErr(e) == [tag |-> "Err", error |-> e]
ShapeError(m) == [variant |-> "ShapeError", msg |-> m]
Tensor(d, sh, st) == [data |-> d, shape |-> sh, strides |-> st]

\* ------------------------------------------------------------- usize arithmetic
usize_mul(a, b, checks) ==
    IF a * b > UsizeMax
    THEN IF checks THEN Panic("attempt to multiply with overflow")
                   ELSE Return((a * b) % UsizeModulus)
    ELSE Return(a * b)

usize_sub(a, b, checks) ==
    IF a - b < 0
    THEN IF checks THEN Panic("attempt to subtract with overflow")
                   ELSE Return((a - b) % UsizeModulus)
    ELSE Return(a - b)

\* shape.iter().product(): a left fold of `*` starting from 1
RECURSIVE product_fold(_, _, _, _)
product_fold(shape, k, acc, checks) ==
    IF k > Len(shape) THEN Return(acc)
    ELSE LET m == usize_mul(acc, shape[k], checks)
         IN IF m.kind = "Panic" THEN m
            ELSE product_fold(shape, k + 1, m.val, checks)

iter_product(shape, checks) == product_fold(shape, 1, 1, checks)

\* ------------------------------------------------------------- formatting of numbers
Digit(d) == <<"0", "1", "2", "3", "4", "5", "6", "7", "8", "9">>[d + 1]

\* `{}` / `{:?}` of a non-negative integer: its decimal digits
RECURSIVE to_decimal(_)
to_decimal(n) ==
    IF n < 10 THEN <<Digit(n)>>
    ELSE to_decimal(n \div 10) \o <<Digit(n % 10)>>

\* ------------------------------------------------------------- Tensor::new
\* the body of `for i in (0..end).rev()`; `next` counts the iterations left,
\* the current 0-based index is next - 1.  Indexing a Vec or slice past its
\* length panics.
RECURSIVE strides_loop(_, _, _, _)
strides_loop(strides, shape, next, checks) ==
    IF next = 0 THEN Return(strides)
    ELSE LET i == next - 1
         IN IF i + 1 >= Len(strides) \/ i + 1 >= Len(shape)
            THEN Panic("index out of bounds")
            ELSE LET m == usize_mul(strides[i + 2], shape[i + 2], checks)
                 IN IF m.kind = "Panic" THEN m
                    ELSE strides_loop([strides EXCEPT ![i + 1] = m.val],
                                      shape, next - 1, checks)

calculate_strides(shape, checks) ==
    LET end == usize_sub(Len(shape), 1, checks)
    IN IF end.kind = "Panic" THEN end
       ELSE strides_loop([k \in 1..Len(shape) |-> 1], shape, end.val, checks)

shape_error_message(len, num_elements) ==
    <<"Data size (">> \o to_decimal(len)
        \o <<") does not match shape product (">> \o to_decimal(num_elements)
        \o <<")">>

new(data, shape, checks) ==
    LET num_elements == iter_product(shape, checks)
    IN IF num_elements.kind = "Panic" THEN num_elements
       ELSE IF Len(data) # num_elements.val
       THEN Return(ResultErr(ShapeError(
                shape_error_message(Len(data), num_elements.val))))
       ELSE LET strides == calculate_strides(shape, checks)
            IN IF strides.kind = "Panic" THEN strides
               ELSE Return(ResultOk(Tensor(data, shape, strides.val)))

\* Result::unwrap() applied to the outcome of a call
unwrap(outcome) ==
    IF outcome.kind = "Panic" THEN outcome
    ELSE IF outcome.val.tag = "Err"
    THEN Panic("called Result::unwrap on an Err value")
    ELSE Return(outcome.val.tensor)

\* ------------------------------------------------------------- zeros
DefaultValue == 0

\* vec![T::default(); num_elements]
vec_repeat(v, n) == [k \in 1..n |-> v]

zeros(shape, checks) ==
    LET num_elements == iter_product(shape, checks)
    IN IF num_elements.kind = "Panic" THEN num_elements
       ELSE unwrap(new(vec_repeat(DefaultValue, num_elements.val), shape, checks))

\* ------------------------------------------------------------- tensor! literal builder
\* a flatten that concatenates the inner Vecs last to first
RECURSIVE flatten_last_to_first(_)
flatten_last_to_first(vv) ==
    IF Len(vv) = 0 THEN <<>> ELSE flatten_last_to_first(Tail(vv)) \o Head(vv)

\* Iterator::flatten over a Vec of Vecs: the inner Vecs concatenated in order
RECURSIVE flatten(_)
flatten(vv) ==
    IF Len(vv) = 0 THEN <<>> ELSE Head(vv) \o flatten(Tail(vv))

\* a consistency check that only compares the element count with d1 * d2
rows_count_only(rows, d2) ==
    Len(flatten(rows)) = Len(rows) * d2

\* rows.iter().all(|r| r.len() == d2)
rows_consistent(rows, d2) ==
    \A r \in 1..Len(rows) : Len(rows[r]) = d2

\* layers.iter().all(|m| m.len() == d2 && m.iter().all(|r| r.len() == d3))
layers_consistent(layers, d2, d3) ==
    \A m \in 1..Len(layers) :
        /\ Len(layers[m]) = d2
        /\ \A r \in 1..Len(layers[m]) : Len(layers[m][r]) = d3

\* The 3D arm.  The pattern's `+` repetitions make every level non-empty.
tensor_3d(layers, checks) ==
    LET d1 == Len(layers)
        d2 == Len(layers[1])
        d3 == Len(layers[1][1])
    IN IF ~layers_consistent(layers, d2, d3)
       THEN Panic("tensor!: all inner 2D matrices must have equal sizes")
       ELSE unwrap(new(flatten(flatten(layers)), <<d1, d2, d3>>, checks))

\* The 2D arm.
tensor_2d(rows, checks) ==
    LET d1 == Len(rows)
        d2 == Len(rows[1])
    IN IF ~rows_consistent(rows, d2)
       THEN Panic("tensor!: all rows must have the same length")
       ELSE unwrap(new(flatten(rows), <<d1, d2>>, checks))

\* The uses of a local binding in evaluation order; a Vec is not Copy, so a
\* by-value use moves it and any later use is rejected by the borrow checker
\* (error E0382), in which case the expansion does not compile.
use_after_move(uses) ==
    \E i, j \in 1..Len(uses) : i < j /\ uses[i] = "move"

\* `Tensor::new(data, vec![data.len()])`: arguments are evaluated left to
\* right, `data` by value first, then `data.len()`.
data_uses_1d == <<"move", "borrow">>

\* The 1D arm.
tensor_1d(vals, checks) ==
    LET data == vals
    IN IF use_after_move(data_uses_1d)
       THEN [kind |-> "CompileError", msg |-> "E0382: borrow of moved value: data"]
       ELSE unwrap(new(data, <<Len(data)>>, checks))

\* ------------------------------------------------------------- Display
\* " ".repeat(n)
str_repeat(c, n) == [k \in 1..n |-> c]

\* `{:?}` of an element (a non-negative integer)
debug_fmt(x) == to_decimal(x)

\* a separator that also puts a comma after the last item
separator_trailing_comma(i, elements_in_dim) == <<",", "\n">>

\* what follows item i of a dimension with elements_in_dim items
separator(i, elements_in_dim) ==
    IF i < elements_in_dim - 1 THEN <<",", "\n">> ELSE <<"\n">>

\* let offset = i * strides[0]
element_offset(i, strides, checks) ==
    IF Len(strides) = 0 THEN Panic("index out of bounds")
    ELSE usize_mul(i, strides[1], checks)

\* A formatted piece: the characters written, and the absolute 0-based
\* positions of the tensor's data that were read, in reading order.
Written(out, reads) == [out |-> out, reads |-> reads]

\* `base` is the position of data[0] in the tensor's whole buffer; it only
\* serves to record which elements are read.
RECURSIVE format_recursive(_, _, _, _, _, _)
RECURSIVE format_loop(_, _, _, _, _, _, _, _)
format_loop(data, shape, strides, level, base, checks, i, acc) ==
    LET indent == str_repeat(" ", level * 2)
        elements_in_dim == shape[1]
    IN IF i >= elements_in_dim
       THEN Return(Written(acc.out \o indent \o <<"]">>, acc.reads))
       ELSE LET offset == element_offset(i, strides, checks)
                item ==
                    IF offset.kind = "Panic" THEN offset
                    ELSE IF Len(shape) > 1
                    THEN IF offset.val > Len(data)
                         THEN Panic("range start index out of range")
                         ELSE format_recursive(
                                  SubSeq(data, offset.val + 1, Len(data)),
                                  Tail(shape), Tail(strides), level + 1,
                                  base + offset.val, checks)
                    ELSE IF offset.val >= Len(data)
                         THEN Panic("index out of bounds")
                         ELSE Return(Written(debug_fmt(data[offset.val + 1]),
                                             <<base + offset.val>>))
            IN IF item.kind = "Panic" THEN item
               ELSE format_loop(data, shape, strides, level, base, checks, i + 1,
                        Written(acc.out \o indent \o <<" ", " ">> \o item.val.out
                                    \o separator(i, elements_in_dim),
                                acc.reads \o item.val.reads))

format_recursive(data, shape, strides, level, base, checks) ==
    IF Len(shape) = 0
    THEN IF Len(data) = 0 THEN Panic("index out of bounds")
         ELSE Return(Written(debug_fmt(data[1]), <<base>>))
    ELSE format_loop(data, shape, strides, level, base, checks, 0,
                     Written(<<"[", "\n">>, <<>>))

\* a zero test that looks at the outermost dimension only
first_dim_zero(shape) == shape[1] = 0

\* self.shape.iter().any(|&dim| dim == 0)
any_zero_dim(shape) == \E k \in 1..Len(shape) : shape[k] = 0

\* Display for Tensor
fmt(t, checks) ==
    IF Len(t.shape) = 0 THEN Return(Written(<<"[", "]", "\n">>, <<>>))
    ELSE IF any_zero_dim(t.shape) THEN Return(Written(<<"[", "]", "\n">>, <<>>))
    ELSE format_recursive(t.data, t.shape, t.strides, 0, 0, checks)

\* ------------------------------------------------------------- inputs
\* dimension sizes: the small ones and one whose square overflows usize
Dims == (0..MaxDim) \cup {BigDim}

Shapes == UNION {[1..r -> Dims] : r \in 0..MaxRank}

\* the product of the dimensions as a mathematical integer
RECURSIVE MathProduct(_)
MathProduct(shape) ==
    IF Len(shape) = 0 THEN 1 ELSE Head(shape) * MathProduct(Tail(shape))

\* the row-major strides of a shape as mathematical integers
RowMajor(shape) ==
    [k \in 1..Len(shape) |-> MathProduct(SubSeq(shape, k + 1, Len(shape)))]

Ramp(n) == [k \in 1..n |-> k]

ElemValues == {0, 7}

\* data buffers of length n: distinct elements, or one repeated element
DataSeqs(n) == {Ramp(n)} \cup {vec_repeat(v, n) : v \in ElemValues}

\* data lengths tried with a shape: short ones, and the one that matches
DataLens(shape) ==
    (0..MaxLen) \cup {n \in {MathProduct(shape)} : n <= UsizeMax}

\* Tensor values that satisfy the documented invariants of the struct
TensorValues ==
    UNION {{Tensor(d, sh, RowMajor(sh)) : d \in DataSeqs(MathProduct(sh))} :
        sh \in {x \in Shapes : MathProduct(x) <= UsizeMax
                               /\ \A k \in 1..Len(x) : RowMajor(x)[k] <= UsizeMax}}

ValidTensor(t) ==
    /\ Len(t.data) = MathProduct(t.shape)
    /\ t.strides = RowMajor(t.shape)

\* a literal is described by the lengths of its rows; its values are
\* numbered 1, 2, 3, ... in the order they are written
RECURSIVE SumTo(_, _)
SumTo(lens, j) == IF j = 0 THEN 0 ELSE SumTo(lens, j - 1) + lens[j]

Total(lens) == SumTo(lens, Len(lens))

LiteralRows(lens, start) ==
    [j \in 1..Len(lens) |-> [k \in 1..lens[j] |-> start + SumTo(lens, j - 1) + k]]

RECURSIVE BlockStart(_, _)
BlockStart(blocks, b) ==
    IF b = 1 THEN 0 ELSE BlockStart(blocks, b - 1) + Total(blocks[b - 1])

LiteralLayers(blocks) ==
    [b \in 1..Len(blocks) |-> LiteralRows(blocks[b], BlockStart(blocks, b))]

RowLens2D == UNION {[1..r -> 1..MaxCols] : r \in 1..MaxRows}

BlockLens == UNION {[1..r -> 1..MaxBlockCols] : r \in 1..MaxBlockRows}

BlockLens3D == UNION {[1..b -> BlockLens] : b \in 1..MaxBlocks}

\* ------------------------------------------------------------- state machine
Constructors == {"new", "zeros", "tensor_1d", "tensor_2d", "tensor_3d"}

\* the Tensor a finished constructor call left in the caller's hands, if any
Produced ==
    IF call.op \notin Constructors \/ result.kind # "Return" THEN {}
    ELSE IF call.op = "new"
    THEN IF result.val.tag = "Ok" THEN {result.val.tensor} ELSE {}
    ELSE {result.val}

Init ==
    /\ overflow_checks \in BOOLEAN
    /\ call = [op |-> "none"]
    /\ result = [kind |-> "None"]

CallNew ==
    /\ call.op = "none"
    /\ \E shape \in Shapes : \E n \in DataLens(shape) : \E data \in DataSeqs(n) :
        /\ call' = [op |-> "new", data |-> data, shape |-> shape]
        /\ result' = new(data, shape, overflow_checks)
    /\ UNCHANGED overflow_checks

CallZeros ==
    /\ call.op = "none"
    /\ \E shape \in Shapes :
        /\ call' = [op |-> "zeros", shape |-> shape]
        /\ result' = zeros(shape, overflow_checks)
    /\ UNCHANGED overflow_checks

CallTensor1D ==
    /\ call.op = "none"
    /\ \E n \in 1..MaxCols :
        /\ call' = [op |-> "tensor_1d", vals |-> Ramp(n)]
        /\ result' = tensor_1d(Ramp(n), overflow_checks)
    /\ UNCHANGED overflow_checks

CallTensor2D ==
    /\ call.op = "none"
    /\ \E lens \in RowLens2D :
        /\ call' = [op |-> "tensor_2d", rows |-> LiteralRows(lens, 0)]
        /\ result' = tensor_2d(LiteralRows(lens, 0), overflow_checks)
    /\ UNCHANGED overflow_checks

CallTensor3D ==
    /\ call.op = "none"
    /\ \E blocks \in BlockLens3D :
        /\ call' = [op |-> "tensor_3d", layers |-> LiteralLayers(blocks)]
        /\ result' = tensor_3d(LiteralLayers(blocks), overflow_checks)
    /\ UNCHANGED overflow_checks

\* Display of the tensor a constructor returned
DisplayProduced ==
    /\ \E t \in Produced :
        /\ call' = [op |-> "display", tensor |-> t]
        /\ result' = fmt(t, overflow_checks)
    /\ UNCHANGED overflow_checks

\* Display of a Tensor value built field by field inside the crate
DisplayValue ==
    /\ call.op = "none"
    /\ \E t \in TensorValues :
        /\ call' = [op |-> "display", tensor |-> t]
        /\ result' = fmt(t, overflow_checks)
    /\ UNCHANGED overflow_checks

Next ==
    \/ CallNew
    \/ CallZeros
    \/ CallTensor1D
    \/ CallTensor2D
    \/ CallTensor3D
    \/ DisplayProduced
    \/ DisplayValue

Spec == Init /\ [][Next]_vars

\* ------------------------------------------------------------- properties
Contains(s, sub) ==
    \E i \in 1..(Len(s) - Len(sub) + 1) : SubSeq(s, i, i + Len(sub) - 1) = sub

StripWhitespace(out) == SelectSeq(out, LAMBDA c : c \notin {" ", "\n"})

\* strides[last] = 1 and strides[i] = strides[i+1] * shape[i+1]
RowMajorRecurrence(t) ==
    /\ Len(t.strides) = Len(t.shape)
    /\ Len(t.shape) >= 1 => t.strides[Len(t.shape)] = 1
    /\ \A i \in 1..(Len(t.shape) - 1) : t.strides[i] = t.strides[i + 1] * t.shape[i + 1]

\* C1: Tensor::new on a shape of rank >= 1 and data whose length is the
\* product of the shape returns Ok with the given data and shape and
\* row-major strides.
C1_NewSucceedsOnMatchingData ==
    (call.op = "new" /\ Len(call.shape) >= 1
        /\ Len(call.data) = MathProduct(call.shape))
    => /\ result.kind = "Return"
       /\ result.val.tag = "Ok"
       /\ result.val.tensor.data = call.data
       /\ result.val.tensor.shape = call.shape
       /\ RowMajorRecurrence(result.val.tensor)

\* C2: Tensor::new on data whose length differs from the mathematical
\* product of the shape returns Err(ShapeError(msg)) as a value, and msg
\* contains the data length and the expected product.
C2_NewRejectsMismatch ==
    (call.op = "new" /\ Len(call.data) # MathProduct(call.shape))
    => /\ result.kind = "Return"
       /\ result.val.tag = "Err"
       /\ result.val.error.variant = "ShapeError"
       /\ Contains(result.val.error.msg, to_decimal(Len(call.data)))
       /\ Contains(result.val.error.msg, to_decimal(MathProduct(call.shape)))

\* C3: Tensor::new([x], []) and zeros([]) complete without a fatal error and
\* yield a tensor with one element, empty shape and empty strides.
C3_ScalarShapeSupported ==
    /\ (call.op = "new" /\ call.shape = <<>> /\ Len(call.data) = 1)
       => /\ result.kind = "Return"
          /\ result.val.tag = "Ok"
          /\ result.val.tensor = Tensor(call.data, <<>>, <<>>)
    /\ (call.op = "zeros" /\ call.shape = <<>>)
       => /\ result.kind = "Return"
          /\ result.val = Tensor(<<DefaultValue>>, <<>>, <<>>)

\* C4: zeros on a shape of rank >= 1 whose product fits usize never fails
\* and returns a tensor of that shape with product(shape) default elements.
C4_ZerosNeverFailsWithoutOverflow ==
    (call.op = "zeros" /\ Len(call.shape) >= 1
        /\ MathProduct(call.shape) <= UsizeMax)
    => /\ result.kind = "Return"
       /\ result.val.shape = call.shape
       /\ Len(result.val.data) = MathProduct(call.shape)
       /\ \A k \in 1..Len(result.val.data) : result.val.data[k] = DefaultValue

\* C5: zeros on a shape whose product exceeds the largest usize panics; it
\* never returns a tensor built from the wrapped product.
C5_ZerosPanicsOnOverflow ==
    (call.op = "zeros" /\ MathProduct(call.shape) > UsizeMax)
    => result.kind = "Panic"

WellFormed2D(rows) ==
    \A r \in 1..Len(rows) : Len(rows[r]) = Len(rows[1])

WellFormed3D(layers) ==
    \A b \in 1..Len(layers) :
        /\ Len(layers[b]) = Len(layers[1])
        /\ \A r \in 1..Len(layers[b]) : Len(layers[b][r]) = Len(layers[1][1])

C8_Literal1D ==
    call.op = "tensor_1d"
    => /\ result.kind = "Return"
       /\ result.val = Tensor(call.vals, <<Len(call.vals)>>, <<1>>)
       /\ Return(ResultOk(result.val))
              = new(call.vals, <<Len(call.vals)>>, overflow_checks)

RECURSIVE NestedText(_, _)
RECURSIVE NestedItems(_, _, _)
NestedItems(shape, data, i) ==
    LET size == MathProduct(Tail(shape))
        item == NestedText(Tail(shape), SubSeq(data, (i - 1) * size + 1, i * size))
    IN IF i = shape[1] THEN item
       ELSE item \o <<",">> \o NestedItems(shape, data, i + 1)

NestedText(shape, data) ==
    IF Len(shape) = 0 THEN to_decimal(data[1])
    ELSE <<"[">> \o NestedItems(shape, data, 1) \o <<"]">>

\* C10: Display of a tensor that satisfies the invariants and has rank >= 1
\* and no zero-size dimension writes one bracket pair per sub-array, items
\* separated by commas without a trailing comma, reads every element of data
\* exactly once in flat order and never out of bounds; [2,2] with data
\* [1,2,3,4] is an outer bracket around the rows [1, 2] and [3, 4].
C10_DisplayNested ==
    (call.op = "display" /\ ValidTensor(call.tensor)
        /\ Len(call.tensor.shape) >= 1
        /\ \A k \in 1..Len(call.tensor.shape) : call.tensor.shape[k] >= 1)
    => /\ result.kind = "Return"
       /\ StripWhitespace(result.val.out)
              = NestedText(call.tensor.shape, call.tensor.data)
       /\ result.val.reads = [k \in 1..Len(call.tensor.data) |-> k - 1]
       /\ (call.tensor.shape = <<2, 2>> /\ call.tensor.data = <<1, 2, 3, 4>>)
          => StripWhitespace(result.val.out)
                 = <<"[", "[", "1", ",", "2", "]", ",",
                     "[", "3", ",", "4", "]", "]">>

C10_Witness ==
    /\ call.op = "display"
    /\ call.tensor = Tensor(<<1, 2, 3, 4>>, <<2, 2>>, <<2, 1>>)
    /\ result.kind = "Return"
    /\ Len(result.val.reads) = 4

====
